---- MODULE Spec2Model ----
(***************************************************************************)
(* The orchestration graph of Rag-Agentica.ipynb: the router node, its     *)
(* conditional fan-out to the three specialist nodes, the edges into the   *)
(* combiner, and the cell that invokes the compiled graph.                 *)
(*                                                                         *)
(* The graph runs on LangGraph's engine, in supersteps: the nodes of one   *)
(* superstep run concurrently from the same snapshot of the state, their   *)
(* returned updates are applied to the state's channels when all of them   *)
(* have returned, and an exception of any node ends invoke() with that     *)
(* exception.  A channel declared without a reducer accepts one write per  *)
(* superstep.                                                              *)
(*                                                                         *)
(* Texts are sequences of tokens; a token is a record whose one field      *)
(* names its kind: [lit |-> s] a literal piece of a template or of the     *)
(* question, [passage |-> i, of |-> c] the page_content of the i-th        *)
(* passage of collection c, [json |-> v] a text that is the JSON document  *)
(* v, [reply |-> p] the text the language model generates for prompt p.    *)
(***************************************************************************)
EXTENDS Naturals, Sequences, FiniteSets, TLC

(* ------------------------------ bounds -------------------------------- *)

\* longest "dominios" list the language model returns to the router
MaxLen == 3

\* executions of the notebook's last cell (the first one and its repeats)
MaxRuns == 2

(* ------------------------- program constants -------------------------- *)

\* get_retriever(self, k=3)
K == 3

\* the keys of the mapping given to add_conditional_edges, which are also
\* the names of the specialist nodes
Domains == {"produtos", "processos", "rh"}

\* an identifier the language model may return that names no domain
Unknown == "financeiro"

Ids == Domains \cup {Unknown}

pergunta == <<[lit |-> "Qual a metodologia de desenvolvimento usada pela coordenadoria de informatica?"]>>

(* ------------------------------- texts -------------------------------- *)

\* the separator of both "\n\n".join calls
Sep == [lit |-> "\n\n"]

\* sep.join(parts): the parts in order, the separator between neighbours
RECURSIVE Join(_, _)
Join(parts, sep) ==
    IF parts = <<>> THEN <<>>
    ELSE IF Len(parts) = 1 THEN parts[1]
    ELSE parts[1] \o <<sep>> \o Join(Tail(parts), sep)

\* PromptTemplate.format for the two-variable templates: the template's own
\* text with {context} (or {respostas}) and {question} filled in, in the
\* order in which the template places them
FormatContextFirst(template, context, question) ==
    <<[lit |-> template.head]>> \o context \o <<[lit |-> "Pergunta:"]>>
        \o question \o <<[lit |-> template.tail]>>

FormatQuestionFirst(template, question, body) ==
    <<[lit |-> template.head]>> \o question \o <<[lit |-> template.mid]>>
        \o body \o <<[lit |-> template.tail]>>

prompt_orquestrador ==
    [name |-> "orquestrador",
     head |-> "Voce e um agente que recebe uma pergunta e decide quais dos seguintes dominios ela envolve",
     tail |-> ""]

FormatOrquestrador(question) ==
    <<[lit |-> prompt_orquestrador.head]>> \o question

\* the three assignments of the prompts cell, in cell order; all three bind
\* the one name prompt_agente_produtos
TemplateProdutos ==
    [name |-> "produtos",
     head |-> "Voce e um especialista na documentacao de produtos da empresa.",
     tail |-> "Resposta:"]

TemplateProcessos ==
    [name |-> "processos",
     head |-> "Voce e um especialista na documentacao de processos da empresa.",
     tail |-> "Resposta:"]

TemplateRH ==
    [name |-> "rh",
     head |-> "Voce e um especialista na documentacao de Recursos Humanos da empresa.",
     tail |-> "Resposta:"]

PromptAssignments == <<TemplateProdutos, TemplateProcessos, TemplateRH>>

\* the value the name holds once the cell has run: the last assignment's
prompt_agente_produtos == PromptAssignments[Len(PromptAssignments)]

prompt_combina ==
    [name |-> "combina",
     head |-> "Voce e um agente que combina respostas. ### Pergunta:",
     mid  |-> "### Respostas dos especialistas:",
     tail |-> "### Resposta final:"]

(* -------------------------------- JSON -------------------------------- *)

JNull == [t |-> "null"]
JStr(s) == [t |-> "str", s |-> s]
JList(xs) == [t |-> "list", items |-> xs]
JObj(fields) == [t |-> "obj", fields |-> fields]

\* lists of identifiers of length 0..n
RECURSIVE IdLists(_)
IdLists(n) ==
    IF n = 0 THEN {<<>>}
    ELSE LET shorter == IdLists(n - 1)
         IN  shorter \cup {Append(xs, i) : xs \in {ys \in shorter : Len(ys) = n - 1}, i \in Ids}

\* the values the model may put under a key, or return bare
JValues == {JNull} \cup {JStr(i) : i \in Ids} \cup {JList(xs) : xs \in IdLists(MaxLen)}

\* the texts the language model may answer the classification prompt with:
\* text that is no JSON, a JSON document that is no object, an object
\* without the key "dominios", an object with it
RouterReplies ==
    {<<[lit |-> "Os dominios sao produtos e processos"]>>}
        \cup {<<[json |-> v]>> : v \in JValues}
        \cup {<<[json |-> JObj([areas |-> v])]>> : v \in {JList(<<"rh">>)}}
        \cup {<<[json |-> JObj([dominios |-> v])]>> : v \in JValues}

\* json.loads(text): the document, or JSONDecodeError
json_loads(text) ==
    IF Len(text) = 1 /\ "json" \in DOMAIN text[1]
    THEN [ok |-> TRUE, val |-> text[1].json]
    ELSE [ok |-> FALSE, err |-> "JSONDecodeError"]

\* value[key] for a string key: a dict gives the entry or KeyError; a list,
\* a string or None gives TypeError
Subscript(value, key) ==
    IF value.t = "obj"
    THEN IF key \in DOMAIN value.fields
         THEN [ok |-> TRUE, val |-> value.fields[key]]
         ELSE [ok |-> FALSE, err |-> "KeyError"]
    ELSE [ok |-> FALSE, err |-> "TypeError"]

Range(f) == {f[i] : i \in DOMAIN f}

(* ------------------------ external collaborators ---------------------- *)

VARIABLES
    get_retriever,     \* what the bare name get_retriever is bound to in the kernel
    llm_router_reply,  \* the text the language model generates for the classification prompt
    passages           \* the number of passages the searched collection holds for the question

\* The agents call get_retriever() as a bare name.  The notebook binds that
\* name nowhere (get_retriever is a method of VectorStoreManager), so in a
\* fresh kernel it is unbound.  In a kernel that bound it, it is the method
\* of one of the three managers, called with its default k.
GetRetrieverBindings == {"unbound"} \cup Domains

\* vectordb.as_retriever(search_kwargs={"k": k}).get_relevant_documents(query):
\* the k most relevant passages of the collection, fewer if it holds fewer
Search(collection, query, k) ==
    [i \in 1..(IF passages < k THEN passages ELSE k)
        |-> [page_content |-> <<[passage |-> i, of |-> collection]>>]]

\* llm.invoke([HumanMessage(content=prompt)]).content when the call returns:
\* a function of the prompt
llm_invoke(prompt) ==
    IF prompt[1] = [lit |-> prompt_orquestrador.head]
    THEN llm_router_reply
    ELSE <<[reply |-> prompt]>>

(* ------------------------------ the run ------------------------------- *)

VARIABLES
    question,      \* GraphState.question
    respostas,     \* GraphState.respostas
    answer,        \* GraphState.answer
    routes,        \* the "routes" entry of the router's return value
    pc,            \* where the engine is: "router", "specialists", "combina", "done", "failed"
    task,          \* per specialist node, its task of the fan-out superstep
    completed,     \* the specialist nodes that returned, in the order they did
    err,           \* the exception invoke() ended with
    ext_failed,    \* a call of the language model or of a retriever failed in this run
    calls,         \* the calls made to the language model and to the retrievers
    ran,           \* per node, how many times its function was entered
    combina_read,  \* state["respostas"] as combina read it
    prev,          \* how the previous execution of the last cell ended
    runs           \* executions of the last cell so far

vars == <<get_retriever, llm_router_reply, passages, question, respostas, answer,
          routes, pc, task, completed, err, ext_failed, calls, ran, combina_read,
          prev, runs>>

Nodes == Domains \cup {"router", "combina"}

NoErr == [at |-> "", kind |-> ""]
Unset == [t |-> "unset"]
Idle == [st |-> "idle", docs |-> <<>>, out |-> <<>>, left |-> 0]
NoRead == [set |-> FALSE, respostas |-> <<>>]
NoPrev ==
    [set |-> FALSE, status |-> "", routes |-> Unset, answer |-> <<>>,
     completed |-> <<>>, ext_failed |-> FALSE]

\* class GraphState(TypedDict): the keys of the state, each a channel
\* without a reducer
GraphState == {"question", "respostas", "answer"}

estado_inicial == [question |-> pergunta, respostas |-> <<>>, answer |-> <<>>]

\* The value of the channel `key` once the engine has applied the dict a
\* node returned: the dict's entry when the key is a key of GraphState that
\* the dict holds, the old value otherwise.  An entry under a name that is
\* no key of GraphState is written to no channel.
Written(update, key, old) ==
    IF key \in GraphState /\ key \in DOMAIN update THEN update[key] ELSE old

\* Edges with combina leading back to the router instead of to END
EdgesBackToRouter ==
    {<<"produtos", "combina">>, <<"processos", "combina">>, <<"rh", "combina">>,
     <<"combina", "router">>}

\* graph.add_edge: the unconditional edges of the graph
Edges ==
    {<<"produtos", "combina">>, <<"processos", "combina">>, <<"rh", "combina">>,
     <<"combina", "END">>}

\* where the engine goes once node n has returned
AfterNode(n) == CHOOSE m \in Nodes \cup {"END"} : <<n, m>> \in Edges

Call(node, svc, what, k, ok) ==
    [node |-> node, svc |-> svc, what |-> what, query |-> question, k |-> k, ok |-> ok]

Init ==
    /\ get_retriever \in GetRetrieverBindings
    /\ llm_router_reply \in RouterReplies
    /\ passages \in {0, K}
    /\ question = estado_inicial.question
    /\ respostas = estado_inicial.respostas
    /\ answer = estado_inicial.answer
    /\ routes = Unset
    /\ pc = "router"
    /\ task = [d \in Domains |-> Idle]
    /\ completed = <<>>
    /\ err = NoErr
    /\ ext_failed = FALSE
    /\ calls = {}
    /\ ran = [n \in Nodes |-> 0]
    /\ combina_read = NoRead
    /\ prev = NoPrev
    /\ runs = 1

\* Raise with the exception swallowed: the engine goes on to what follows
\* the node as if the node had returned nothing.
RaiseIgnored(node, kind) ==
    /\ pc' = IF node \in Domains THEN "combina" ELSE "done"
    /\ err' = NoErr

\* An exception raised in a node, in its conditional edge or by the engine
\* when it applies the writes: no node and no cell catches it, so
\* graph_compilado.invoke ends with it.
Raise(node, kind) ==
    /\ pc' = "failed"
    /\ err' = [at |-> node, kind |-> kind]

(* ------------------------------ router -------------------------------- *)

\* router's body after the model call returned `content`: the value of
\* areas["dominios"], or the exception the subscript raises.  Only
\* json.JSONDecodeError is caught.
router_return(content) ==
    LET parsed == json_loads(content)
        areas  == IF parsed.ok THEN parsed.val
                  ELSE JObj([dominios |-> JList(<<>>)])
    IN  Subscript(areas, "dominios")

\* router_dict with a provisional answer: the question echoed back
router_dict_with_answer(dominios) == [routes |-> dominios, answer |-> question]

\* return {"routes": areas["dominios"]}
router_dict(dominios) == [routes |-> dominios]

\* the mapping given to add_conditional_edges
PathMap == [d \in Domains |-> d]

\* The conditional edge: path is lambda x: x["routes"]; a result that is no
\* list is taken as the one-element list of it; every element is looked up
\* in the mapping, and an element that is no key of it raises KeyError.
\* Each element found is one write to the trigger of its destination.
conditional_edges(result) ==
    LET keys == IF result.t = "list" THEN result.items
                ELSE IF result.t = "str" THEN <<result.s>>
                ELSE <<"None">>
    IN  IF \A i \in DOMAIN keys : keys[i] \in DOMAIN PathMap
        THEN [ok |-> TRUE, to |-> [i \in DOMAIN keys |-> PathMap[keys[i]]]]
        ELSE [ok |-> FALSE, err |-> "KeyError"]

Occurrences(xs, x) == Len(SelectSeq(xs, LAMBDA y : y = x))

\* TasksOf with one task per write to the trigger
TasksOfPerWrite(writes, d) == Occurrences(writes, d)

\* The tasks node d gets in the next superstep: one when its trigger was
\* written in this superstep, however many times, none otherwise.
TasksOf(writes, d) == IF d \in Range(writes) THEN 1 ELSE 0

\* The first superstep: the router node and, on its return value, the
\* conditional edge.  "routes" is no key of GraphState: the engine writes
\* it to no channel and hands the returned dict, merged with the state, to
\* the edge's path function.  The destinations become the tasks of the next
\* superstep; with no destination the graph has nothing left to run.
router ==
    /\ pc = "router"
    /\ ran' = [ran EXCEPT !["router"] = @ + 1]
    /\ \E llm_ok \in BOOLEAN :
        LET prompt == FormatOrquestrador(question)
            ret    == router_return(llm_invoke(prompt))
            value  == router_dict(ret.val)
            edge   == conditional_edges(value.routes)
        IN  /\ calls' = calls \cup {Call("router", "llm", prompt_orquestrador.name, 0, llm_ok)}
            /\ ext_failed' = ~llm_ok
            /\ IF ~llm_ok
               THEN /\ Raise("router", "GenerationFailure")
                    /\ UNCHANGED <<routes, task, question, respostas, answer>>
               ELSE IF ~ret.ok
               THEN /\ Raise("router", ret.err)
                    /\ UNCHANGED <<routes, task, question, respostas, answer>>
               ELSE /\ routes' = value.routes
                    /\ question' = Written(value, "question", question)
                    /\ respostas' = Written(value, "respostas", respostas)
                    /\ answer' = Written(value, "answer", answer)
                    /\ IF ~edge.ok
                       THEN Raise("conditional_edges", edge.err) /\ UNCHANGED task
                       ELSE /\ task' = [d \in Domains |->
                                          IF TasksOf(edge.to, d) > 0
                                          THEN [Idle EXCEPT !.st = "ready",
                                                            !.left = TasksOf(edge.to, d)]
                                          ELSE Idle]
                            /\ pc' = IF edge.to = <<>> THEN "done" ELSE "specialists"
                            /\ err' = err
    /\ UNCHANGED <<get_retriever, llm_router_reply, passages, completed,
                   combina_read, prev, runs>>

(* ---------------------------- specialists ----------------------------- *)

\* The first suspension point of a specialist: get_retriever() and the
\* retriever's get_relevant_documents(state["question"]).
agente_retrieve(n) ==
    /\ pc = "specialists"
    /\ task[n].st = "ready"
    /\ ran' = [ran EXCEPT ![n] = @ + 1]
    /\ IF get_retriever = "unbound"
       THEN /\ Raise(n, "NameError")
            /\ UNCHANGED <<task, calls, ext_failed>>
       ELSE \E ok \in BOOLEAN :
            /\ calls' = calls \cup {Call(n, "retriever", get_retriever, K, ok)}
            /\ IF ok
               THEN /\ task' = [task EXCEPT ![n].st = "retrieved",
                                            ![n].docs = Search(get_retriever, question, K)]
                    /\ UNCHANGED <<pc, err, ext_failed>>
               ELSE /\ ext_failed' = TRUE
                    /\ Raise(n, "RetrievalFailure")
                    /\ UNCHANGED task
    /\ UNCHANGED <<get_retriever, llm_router_reply, passages, question, respostas,
                   answer, routes, completed, combina_read, prev, runs>>

\* docs_content with a notice in place of an empty context
docs_content_or_notice(docs) ==
    IF docs = <<>> THEN <<[lit |-> "Nenhum documento encontrado."]>>
    ELSE Join([i \in DOMAIN docs |-> docs[i].page_content], Sep)

\* "\n\n".join(doc.page_content for doc in docs)
docs_content(docs) == Join([i \in DOMAIN docs |-> docs[i].page_content], Sep)

\* The second suspension point: the prompt is rendered with the template
\* the name prompt_agente_produtos holds, the model is called, and the node
\* returns the respostas of its snapshot with the response appended.
agente_generate(n) ==
    /\ pc = "specialists"
    /\ task[n].st = "retrieved"
    /\ \E ok \in BOOLEAN :
        LET prompt_value == FormatContextFirst(prompt_agente_produtos,
                                               docs_content(task[n].docs), question)
        IN  /\ calls' = calls \cup {Call(n, "llm", prompt_agente_produtos.name, 0, ok)}
            /\ IF ok
               THEN /\ task' = [task EXCEPT ![n].st = IF task[n].left > 1 THEN "ready"
                                                      ELSE "returned",
                                            ![n].left = task[n].left - 1,
                                            ![n].out = respostas \o <<llm_invoke(prompt_value)>>]
                    /\ completed' = Append(completed, n)
                    /\ UNCHANGED <<pc, err, ext_failed>>
               ELSE /\ ext_failed' = TRUE
                    /\ Raise(n, "GenerationFailure")
                    /\ UNCHANGED <<task, completed>>
    /\ UNCHANGED <<get_retriever, llm_router_reply, passages, question, respostas,
                   answer, routes, ran, combina_read, prev, runs>>

agente_produtos == agente_retrieve("produtos") \/ agente_generate("produtos")

agente_processos == agente_retrieve("processos") \/ agente_generate("processos")

agente_rh == agente_retrieve("rh") \/ agente_generate("rh")

(* -------------------------- the join and combina ---------------------- *)

\* A key of GraphState without a reducer: the channel takes the one value
\* written to it in a superstep, and more than one is an InvalidUpdateError.
ChannelUpdate(values) ==
    IF Len(values) = 1
    THEN [ok |-> TRUE, val |-> values[1]]
    ELSE [ok |-> FALSE, err |-> "InvalidUpdateError"]

\* The end of the fan-out superstep: every task has returned; the values
\* they returned for "respostas" are applied to the channel, and the edges
\* produtos/processos/rh -> combina make combina the next superstep.
apply_writes ==
    /\ pc = "specialists"
    /\ \A d \in Domains : task[d].st \in {"idle", "returned"}
    /\ LET upd == ChannelUpdate([i \in DOMAIN completed |-> task[completed[i]].out])
       IN  IF upd.ok
           THEN /\ respostas' = upd.val
                /\ pc' = "combina"
                /\ err' = err
           ELSE /\ Raise("respostas", upd.err)
                /\ UNCHANGED respostas
    /\ UNCHANGED <<get_retriever, llm_router_reply, passages, question, answer, routes,
                   task, completed, ext_failed, calls, ran, combina_read, prev, runs>>

\* combina_dict that also stores the combined answer under "question"
combina_dict_with_question(content) == [answer |-> content, question |-> content]

\* return {"answer": response.content}
combina_dict(content) == [answer |-> content]

\* The combiner node, then the edge that leaves it.
combina ==
    /\ pc = "combina"
    /\ ran' = [ran EXCEPT !["combina"] = @ + 1]
    /\ combina_read' = [set |-> TRUE, respostas |-> respostas]
    /\ \E ok \in BOOLEAN :
        LET respostas_texto == Join(respostas, Sep)
            prompt == FormatQuestionFirst(prompt_combina, question, respostas_texto)
            value == combina_dict(llm_invoke(prompt))
        IN  /\ calls' = calls \cup {Call("combina", "llm", prompt_combina.name, 0, ok)}
            /\ IF ok
               THEN /\ question' = Written(value, "question", question)
                    /\ respostas' = Written(value, "respostas", respostas)
                    /\ answer' = Written(value, "answer", answer)
                    /\ pc' = IF AfterNode("combina") = "END" THEN "done"
                             ELSE AfterNode("combina")
                    /\ UNCHANGED <<err, ext_failed>>
               ELSE /\ ext_failed' = TRUE
                    /\ Raise("combina", "GenerationFailure")
                    /\ UNCHANGED <<question, respostas, answer>>
    /\ UNCHANGED <<get_retriever, llm_router_reply, passages, routes, task,
                   completed, prev, runs>>

(* --------------------------- the last cell ---------------------------- *)

Over == pc \in {"done", "failed"}

\* InvokeCell with the previous execution's state handed to invoke instead
\* of a new estado_inicial.
InvokeCellReused ==
    /\ question' = question
    /\ respostas' = respostas
    /\ answer' = answer

\* estado_inicial is built anew and handed to graph_compilado.invoke
InvokeCell ==
    /\ question' = estado_inicial.question
    /\ respostas' = estado_inicial.respostas
    /\ answer' = estado_inicial.answer

\* The last cell is executed again, in the same kernel, once its previous
\* execution is over.
rerun ==
    /\ Over
    /\ runs < MaxRuns
    /\ runs' = runs + 1
    /\ prev' = [set |-> TRUE, status |-> pc, routes |-> routes, answer |-> answer,
                completed |-> completed, ext_failed |-> ext_failed]
    /\ InvokeCell
    /\ routes' = Unset
    /\ pc' = "router"
    /\ task' = [d \in Domains |-> Idle]
    /\ completed' = <<>>
    /\ err' = NoErr
    /\ ext_failed' = FALSE
    /\ calls' = {}
    /\ ran' = [n \in Nodes |-> 0]
    /\ combina_read' = NoRead
    /\ UNCHANGED <<get_retriever, llm_router_reply, passages>>

Next ==
    \/ router
    \/ agente_produtos
    \/ agente_processos
    \/ agente_rh
    \/ apply_writes
    \/ combina
    \/ rerun

Spec == Init /\ [][Next]_vars

\* One execution of graph_compilado.invoke, from estado_inicial to its end.
InvokeNext ==
    \/ router
    \/ agente_produtos
    \/ agente_processos
    \/ agente_rh
    \/ apply_writes
    \/ combina

\* The engine runs every task it has scheduled and applies the writes of a
\* superstep once its tasks have returned; a call of the language model or
\* of a retriever returns or fails.
FairSpec ==
    /\ Init
    /\ [][InvokeNext]_vars
    /\ WF_vars(router)
    /\ WF_vars(agente_produtos)
    /\ WF_vars(agente_processos)
    /\ WF_vars(agente_rh)
    /\ WF_vars(apply_writes)
    /\ WF_vars(combina)

(* ------------------------------ properties ---------------------------- *)

\* the identifiers the router's return value routes to
RoutedIds ==
    IF routes.t = "list" THEN Range(routes.items)
    ELSE IF routes.t = "str" THEN {routes.s}
    ELSE {}

\* the domain set the classification yields
D == RoutedIds \cap Domains

Scheduled(d) == task[d].st # "idle"

\* the language model answered the classification prompt
RouterCallReturned ==
    /\ pc # "router"
    /\ err # [at |-> "router", kind |-> "GenerationFailure"]

\* the expected structured form: a JSON object holding a "dominios" list
WellFormed(text) ==
    /\ json_loads(text).ok
    /\ json_loads(text).val.t = "obj"
    /\ "dominios" \in DOMAIN json_loads(text).val.fields
    /\ json_loads(text).val.fields.dominios.t = "list"

\* the identifiers of the parsed output
ParsedIds ==
    IF WellFormed(llm_router_reply)
    THEN Range(json_loads(llm_router_reply).val.fields.dominios.items)
    ELSE {}

\* C1: in a run in which no external call fails, get_retriever is bound and
\* the classification yields a non-empty set D of known domains, the
\* respostas that combina reads has |D| entries, one from the specialist of
\* each domain in D.
C1_CombinerReadsOnePerDomain ==
    (/\ Over
     /\ ~ext_failed
     /\ get_retriever # "unbound"
     /\ routes.t = "list"
     /\ RoutedIds \subseteq Domains
     /\ D # {})
        => /\ combina_read.set
           /\ Len(combina_read.respostas) = Cardinality(D)
           /\ \A d \in D :
                /\ task[d].st = "returned"
                /\ task[d].out[Len(task[d].out)] \in Range(combina_read.respostas)

\* C2: a run in which the router yields the empty list ends with combina
\* executed and with an answer that is no longer the initial one.
C2_EmptyRoutesReachCombiner ==
    (Over /\ ~ext_failed /\ routes = JList(<<>>))
        => /\ pc = "done"
           /\ ran["combina"] = 1
           /\ answer # estado_inicial.answer

\* C3: when the model's response to the classification prompt is not in
\* the expected structured form, the router returns the empty routes and
\* raises nothing.
C3_MalformedReplyGivesEmptyRoutes ==
    (RouterCallReturned /\ ~WellFormed(llm_router_reply))
        => /\ routes = JList(<<>>)
           /\ err.at # "router"

\* C4: combina executes at most once and only when every scheduled
\* specialist has returned, and the run in which all three domains are
\* matched (no external call failing, get_retriever bound) ends with
\* combina executed exactly once.
C4_CombinerOnceAfterAllSpecialists ==
    /\ ran["combina"] > 0
        => /\ ran["combina"] = 1
           /\ \A d \in Domains : task[d].st \in {"idle", "returned"}
    /\ (/\ Over
        /\ ~ext_failed
        /\ get_retriever # "unbound"
        /\ routes.t = "list"
        /\ RoutedIds = Domains)
        => ran["combina"] = 1

\* C5: once the router has returned its routes, the specialist of every
\* domain in routes is scheduled, and the specialist of a domain absent
\* from routes is never entered and calls neither retriever nor model.
C5_SpecialistRunsIffRouted ==
    (pc # "router" /\ routes # Unset)
        => \A d \in Domains :
             /\ d \in RoutedIds => Scheduled(d)
             /\ d \notin RoutedIds
                  => /\ ~Scheduled(d)
                     /\ ran[d] = 0
                     /\ \A c \in calls : c.node # d

\* C6: every model call of a specialist node is made with the template of
\* the node's own domain.
C6_OwnTemplate ==
    \A c \in calls :
        (c.svc = "llm" /\ c.node \in Domains) => c.what = c.node

\* C7: every retrieval of a specialist node goes to the retriever of the
\* node's own domain, with k = 3 and the run's question, and no specialist
\* fails for lack of a bound retriever.
C7_OwnRetriever ==
    /\ err.kind # "NameError"
    /\ \A c \in calls :
        c.svc = "retriever"
            => c.node \in Domains /\ c.what = c.node /\ c.k = K /\ c.query = question

\* C8: when the parsed output holds an identifier outside the closed set,
\* the run does not fail at the fan-out, routes is a subset of the closed
\* set, and the specialists of the known identifiers are scheduled.
C8_UnknownIdentifierDropped ==
    (RouterCallReturned /\ Unknown \in ParsedIds)
        => /\ err = NoErr
           /\ RoutedIds \subseteq Domains
           /\ \A d \in ParsedIds \cap Domains : Scheduled(d)

\* C9: a run in which a call of the language model or of a retriever failed
\* is over, ended in the failure that call raised, and its answer is never
\* written: combina produced nothing from the answers of the specialists
\* that did return.
C9_ExternalFailureIsFatal ==
    ext_failed
        => /\ pc = "failed"
           /\ err.kind \in {"GenerationFailure", "RetrievalFailure"}
           /\ answer = estado_inicial.answer
           /\ ~(ran["combina"] > 0 /\ err.at \in Domains)

\* C9's case: a specialist's call failed after another specialist had
\* returned its answer.
C9_Witness ==
    /\ ext_failed
    /\ err.at \in Domains
    /\ \E d \in Domains : d # err.at /\ task[d].st = "returned"

AllReturned ==
    /\ pc = "specialists"
    /\ \A d \in Domains : task[d].st \in {"idle", "returned"}

IsPrefix(xs, ys) ==
    /\ Len(xs) <= Len(ys)
    /\ \A i \in DOMAIN xs : xs[i] = ys[i]

\* C11: within a run every step leaves the entries of respostas in place,
\* and the step that applies the specialists' writes adds one entry at the
\* end for each specialist that wrote, also when several of them started
\* from the same snapshot.
C11_AppendOnlyUnderConcurrentWriters ==
    [][runs' = runs
        => /\ IsPrefix(respostas, respostas')
           /\ AllReturned => Len(respostas') = Len(respostas) + Len(completed)]_vars

\* C13: within a run answer is written at most once and only by combina:
\* a step that changes it is combina's, starts from the initial answer and
\* ends the graph; and once the graph has ended no step of the run follows,
\* so no node is entered and no field of the state changes.
C13_AnswerWrittenOnceAndLast ==
    [][runs' = runs
        => /\ answer' # answer
              => /\ pc = "combina"
                 /\ answer = estado_inicial.answer
                 /\ ran'["combina"] = 1 /\ ran["combina"] = 0
                 /\ pc' = "done"
           /\ pc = "done"
              => /\ ran' = ran
                 /\ <<question, respostas, answer, routes>>' = <<question, respostas, answer, routes>>]_vars

\* combina has written answer and the graph has ended
C13_Witness ==
    /\ pc = "done"
    /\ ran["combina"] = 1
    /\ answer # estado_inicial.answer

\* the state as invoke() holds and returns it: one entry per key of
\* GraphState
StateValues ==
    [k \in GraphState |->
        IF k = "question" THEN question
        ELSE IF k = "respostas" THEN respostas
        ELSE answer]

\* the router returned a value for "routes"
RouterReturned == routes # Unset

\* C14: once the router has returned, routes is a field of the run's state
\* holding the router's value, and the specialists scheduled by the fan-out
\* are exactly the domains of that value.
C14_RoutesIsStateField ==
    RouterReturned
        => /\ "routes" \in DOMAIN StateValues
           /\ pc # "failed" => {d \in Domains : Scheduled(d)} = D

\* C15: question is set when the run starts and no step of the run changes
\* it: after every step of router, of a specialist, of the join and of
\* combina it is the question the run was started with, and every call a
\* node makes is made for that question.
C15_QuestionNeverChanged ==
    [][runs' = runs
        => /\ question' = question
           /\ question' = estado_inicial.question
           /\ \A c \in calls' : c.query = estado_inicial.question]_vars

\* router, a specialist and combina have all executed
C15_Witness ==
    /\ pc = "done"
    /\ ran["router"] = 1
    /\ ran["combina"] = 1
    /\ \E d \in Domains : ran[d] = 1
    /\ question = pergunta

\* the retriever returned no passage to specialist n
RetrievedNothing(n) ==
    /\ task[n].st \in {"retrieved", "returned"}
    /\ task[n].docs = <<>>

LlmCalls(n) == {c \in calls : c.node = n /\ c.svc = "llm"}

\* a prompt of a specialist whose context block is empty: the template's
\* head is followed at once by the question part
EmptyContext(prompt) ==
    /\ prompt[2] = [lit |-> "Pergunta:"]
    /\ \A i \in DOMAIN prompt : "passage" \notin DOMAIN prompt[i]

ListedTwice(d) ==
    /\ RouterReturned
    /\ routes.t = "list"
    /\ Occurrences(routes.items, d) > 1

C18_EveryRunTerminates ==
    /\ [](\A n \in Nodes : ran[n] <= 1)
    /\ (~Over) ~> Over

\* a run in which the router and all three specialists executed has ended
C18_Witness ==
    /\ Over
    /\ ran["router"] = 1
    /\ \A d \in Domains : ran[d] = 1

====
